---- MODULE Spec2Model ----
(***************************************************************************)
(* Model of src/eros.py, the "Tokyo Stock Price Explorer" dashboard.       *)
(*                                                                         *)
(* The script is re-executed top to bottom on every user interaction.  One *)
(* run goes through the stages LoadData -> SelectSymbol -> FilterByDate -> *)
(* Export -> Render -> ShowDataset -> Done; it may instead end in          *)
(* AwaitUpload (st.stop()) or in Error (an exception nobody catches).      *)
(* The only state that survives a run is the st.cache_data entry of        *)
(* load_tokyo_data.                                                        *)
(*                                                                         *)
(* A DataFrame is [cols, rows]: the set of its column names and the        *)
(* sequence of its rows, each row a record over exactly those columns.     *)
(* A timestamp is [day, tod]: calendar day and time of day.                *)
(***************************************************************************)
EXTENDS Integers, Sequences, FiniteSets, TLC

VARIABLES
    pc,              \* stage the current run is at
    data_source,     \* st.sidebar.radio, line 48
    uploaded_file,   \* st.sidebar.file_uploader, line 87
    cache,           \* st.cache_data entry of load_tokyo_data, line 51
    calls,           \* executions of the body of load_tokyo_data
    fetches,         \* yf.download calls issued, per company
    results,         \* outcome of the latest yf.download, per company
    df,              \* the script's variable df
    loaded,          \* df as the load stage left it
    warnings,        \* st.warning messages of this run, in order
    symbols,         \* options of the "Choose a stock" selectbox, line 100
    selected_stock,  \* line 101
    user_start,      \* line 108
    user_end,        \* line 109
    download,        \* st.sidebar.download_button payload, lines 122-127
    chart,           \* the figure handed to st.pyplot / st.plotly_chart
    shown,           \* rows handed to st.dataframe, line 147
    done,            \* stages this run has executed
    from_cache       \* this run's load_tokyo_data() was answered by the cache

vars == <<pc, data_source, uploaded_file, cache, calls, fetches, results, df,
          loaded, warnings, symbols, selected_stock, user_start, user_end,
          download, chart, shown, done, from_cache>>

(***************************************************************************)
(* Bounds of the model.                                                    *)
(***************************************************************************)
\* how many of the ten companies of load_tokyo_data the model keeps
NumSymbols == 2
\* longest uploaded file, in rows, of the filter specification
MaxRows == 3
\* executions of the body of load_tokyo_data after which no new run starts
\* unless the cache is filled
MaxCalls == 2

(***************************************************************************)
(* Fixed data of the program.                                              *)
(***************************************************************************)
CompanyNames ==
    <<"SONY", "TOYOTA", "HONDA", "MITSUBISHI CORP", "NISSAN MOTOR CORP",
      "NIPPON STEEL CORP", "HITACHI", "NINTENDO", "FUJITSU", "JAPAN AIRLINES">>

\* companies.items(), in insertion order
companies == SubSeq(CompanyNames, 1, NumSymbols)

Range(s) == {s[i] : i \in DOMAIN s}

\* trading days of the window [start_date, end_date]
TradingDays == 1..3

\* times of day a timestamp may carry (0 is midnight)
TimesOfDay == {0, 1}

DataSources == {"Tokyo Stock Dataset", "Upload CSV"}
ChartTypes == {"Static (Seaborn)", "Interactive (Plotly)"}

\* column order of the frame load_tokyo_data builds
ColumnOrder ==
    <<"Date", "Open", "High", "Low", "Close", "Symbol", "Price_change",
      "High_Low_Spread">>
PriceColumns == {"Open", "High", "Low", "Close"}

\* selectbox over no options returns None
NoSelection == "None"
\* Series.min() of an empty datetime column, and its .date()
NaT == 0

EmptyFrame == [cols |-> {}, rows |-> <<>>]
NoFile == [present |-> FALSE, cols |-> {}, rows |-> <<>>]
NoCache == [valid |-> FALSE, df |-> EmptyFrame, warnings |-> <<>>]
NoDownload == [file_name |-> "", mime |-> "", header |-> <<>>, data |-> <<>>]
NoChart == [kind |-> "", title |-> <<>>, points |-> <<>>]

(***************************************************************************)
(* The remote data provider: yf.download(ticker, start, end).              *)
(***************************************************************************)
Max(a, b) == IF a >= b THEN a ELSE b
Min(a, b) == IF a <= b THEN a ELSE b

\* the daily bar the provider holds for company number i on day d
Bar(i, d) ==
    LET open == 100 * i + 10 * d
        close == open + ((i + d) % 3) - 1
    IN  [Date |-> [day |-> d, tod |-> 0],
         Open |-> open,
         High |-> Max(open, close) + d,
         Low |-> Min(open, close) - i,
         Close |-> close]

\* a download either raises or returns the bars of the first n trading days
Outcomes ==
    {[ok |-> FALSE, n |-> 0]} \cup
    {[ok |-> TRUE, n |-> k] : k \in 0..Cardinality(TradingDays)}

\* data = yf.download(...); data = data.reset_index()
Download(i, out) == [d \in 1..out.n |-> Bar(i, d)]

NoResults == [s \in Range(companies) |-> [ok |-> FALSE, n |-> 0]]

(***************************************************************************)
(* load_tokyo_data, lines 52-80.                                           *)
(***************************************************************************)
\* data['Symbol'] = name
TagSymbol(rows, name) ==
    [k \in DOMAIN rows |->
        [Date |-> rows[k].Date, Open |-> rows[k].Open, High |-> rows[k].High,
         Low |-> rows[k].Low, Close |-> rows[k].Close, Symbol |-> name]]

\* the loop of lines 67-74 over companies i..NumSymbols: the frames appended
\* and the warnings emitted
RECURSIVE FetchLoop(_, _)
FetchLoop(i, out) ==
    IF i > Len(companies) THEN [frames |-> <<>>, warnings |-> <<>>]
    ELSE LET name == companies[i]
             rest == FetchLoop(i + 1, out)
         IN  IF out[name].ok
             THEN [frames |-> <<TagSymbol(Download(i, out[name]), name)>> \o rest.frames,
                   warnings |-> rest.warnings]
             ELSE [frames |-> rest.frames,
                   warnings |-> <<name>> \o rest.warnings]

\* pd.concat(frames, axis=0) of a non-empty list
RECURSIVE Concat(_)
Concat(frames) ==
    IF frames = <<>> THEN <<>> ELSE Head(frames) \o Concat(Tail(frames))

\* faulty variant of Enrich: the operands of line 77 are swapped
EnrichSwapped(r) ==
    [Date |-> r.Date, Open |-> r.Open, High |-> r.High, Low |-> r.Low,
     Close |-> r.Close, Symbol |-> r.Symbol,
     Price_change |-> r.Open - r.Close,
     High_Low_Spread |-> r.High - r.Low]

\* lines 77-78 on one row
Enrich(r) ==
    [Date |-> r.Date, Open |-> r.Open, High |-> r.High, Low |-> r.Low,
     Close |-> r.Close, Symbol |-> r.Symbol,
     Price_change |-> r.Close - r.Open,
     High_Low_Spread |-> r.High - r.Low]

\* lines 76-80: the frame returned; line 79 leaves the datetime column of
\* yf.download as it is
Transform(frames) ==
    LET rows == Concat(frames)
    IN  [cols |-> Range(ColumnOrder),
         rows |-> [k \in DOMAIN rows |-> Enrich(rows[k])]]

\* faulty variant of load_tokyo_data: no try/except around the download, so
\* the first failing company aborts the whole load
load_tokyo_data_unguarded(out) ==
    LET l == FetchLoop(1, out)
    IN  IF l.warnings # <<>> \/ l.frames = <<>>
        THEN [raised |-> TRUE, df |-> EmptyFrame, warnings |-> <<>>]
        ELSE [raised |-> FALSE, df |-> Transform(l.frames), warnings |-> <<>>]

\* the whole body: pd.concat raises ValueError on an empty list of frames
load_tokyo_data(out) ==
    LET l == FetchLoop(1, out)
    IN  IF l.frames = <<>>
        THEN [raised |-> TRUE, df |-> EmptyFrame, warnings |-> l.warnings]
        ELSE [raised |-> FALSE, df |-> Transform(l.frames), warnings |-> l.warnings]

\* faulty variant of CacheHit: the decorator of line 51 is missing
CacheNeverHit == FALSE

\* st.cache_data: a stored return value is reused
CacheHit == cache.valid

(***************************************************************************)
(* Uploaded files, lines 87-92.                                            *)
(***************************************************************************)
\* the cell of column c in row number k of a file; Date cells are still
\* text, here the pair <<day, time of day>>
FilePrice(c, k) ==
    CASE c = "Open" -> 50 + k
      [] c = "High" -> 60 + 2 * k
      [] c = "Low" -> 40 - k
      [] c = "Close" -> 52 - k

FileRow(c, k, sym, date) ==
    [x \in c |->
        CASE x = "Date" -> date
          [] x = "Symbol" -> sym
          [] OTHER -> FilePrice(x, k)]

\* the Date cells and the Symbol cells files are written with
RawDates == TradingDays \X TimesOfDay
FileSymbols == {"SONY", "TOYOTA"}

\* the rows a file with columns c may hold, up to n of them
RECURSIVE FileRows(_, _)
FileRows(c, n) ==
    IF n = 0 THEN {<<>>}
    ELSE LET shorter == FileRows(c, n - 1)
             syms == IF "Symbol" \in c THEN FileSymbols ELSE {NoSelection}
             dates == IF "Date" \in c THEN RawDates ELSE {<<0, 0>>}
         IN  shorter \cup
             {Append(rs, FileRow(c, n, s, d)) :
                 rs \in {x \in shorter : Len(x) = n - 1}, s \in syms, d \in dates}

\* pd.to_datetime on a text cell
ToDatetime(raw) == [day |-> raw[1], tod |-> raw[2]]

\* df = pd.read_csv(uploaded_file); Date parsed when the column is there
ReadCsv(file) ==
    [cols |-> file.cols,
     rows |-> IF "Date" \in file.cols
              THEN [k \in DOMAIN file.rows |->
                       [file.rows[k] EXCEPT !.Date = ToDatetime(@)]]
              ELSE file.rows]

\* column sets of the files of the filter specification
FilterColumnSets == {PriceColumns \cup opt : opt \in SUBSET {"Date", "Symbol"}}

FilterFiles ==
    UNION {{[present |-> TRUE, cols |-> c, rows |-> rs] : rs \in FileRows(c, MaxRows)} :
              c \in FilterColumnSets}

\* files of the session specification: every column set, also one without
\* Close, each empty or holding three sample rows
SessionColumnSets == FilterColumnSets \cup {{"Date", "Symbol", "Open", "High", "Low"}}

SampleRows(c) ==
    <<FileRow(c, 1, "TOYOTA", <<2, 1>>),
      FileRow(c, 2, "SONY", <<1, 0>>),
      FileRow(c, 3, "TOYOTA", <<1, 1>>)>>

SessionFiles ==
    {[present |-> TRUE, cols |-> c, rows |-> rs] :
        c \in SessionColumnSets, rs \in {<<>>}} \cup
    {[present |-> TRUE, cols |-> c, rows |-> SampleRows(c)] : c \in SessionColumnSets}

(***************************************************************************)
(* The filters, lines 99-111.                                              *)
(***************************************************************************)
\* df['Symbol'].unique(): values in order of first appearance
RECURSIVE Unique(_)
Unique(rows) ==
    IF rows = <<>> THEN <<>>
    ELSE LET front == Unique(SubSeq(rows, 1, Len(rows) - 1))
             s == rows[Len(rows)].Symbol
         IN  IF s \in Range(front) THEN front ELSE Append(front, s)

\* faulty variant of SymbolFilter: the result of the selection is not
\* assigned back to df
SymbolFilterDiscarded(d, s) == d

\* df[df['Symbol'] == selected_stock]
SymbolFilter(d, s) ==
    LET Keep(r) == r.Symbol = s
    IN  [d EXCEPT !.rows = SelectSeq(d.rows, Keep)]

\* .dt.date of a timestamp
DateOf(ts) == ts.day

MinDate(d) == CHOOSE m \in {DateOf(r.Date) : r \in Range(d.rows)} :
                  \A r \in Range(d.rows) : m <= DateOf(r.Date)
MaxDate(d) == CHOOSE m \in {DateOf(r.Date) : r \in Range(d.rows)} :
                  \A r \in Range(d.rows) : m >= DateOf(r.Date)

\* faulty variant of DateFilter: the timestamps themselves are compared with
\* the bounds taken at midnight, without .dt.date
DateFilterOnTimestamp(d, a, b) ==
    LET Keep(r) == /\ r.Date.day > a \/ (r.Date.day = a /\ r.Date.tod >= 0)
                   /\ r.Date.day < b \/ (r.Date.day = b /\ r.Date.tod <= 0)
    IN  [d EXCEPT !.rows = SelectSeq(d.rows, Keep)]

\* rows in ascending order of timestamp, by insertion
Earlier(x, y) == x.Date.day < y.Date.day \/ (x.Date.day = y.Date.day /\ x.Date.tod < y.Date.tod)

RECURSIVE SortByDate(_)
SortByDate(rows) ==
    IF rows = <<>> THEN <<>>
    ELSE LET front == SortByDate(SubSeq(rows, 1, Len(rows) - 1))
             last == rows[Len(rows)]
             Before(r) == ~Earlier(last, r)
             After(r) == Earlier(last, r)
         IN  SelectSeq(front, Before) \o <<last>> \o SelectSeq(front, After)

\* faulty variant of DateFilter: the selection is followed by
\* sort_values('Date')
DateFilterSorted(d, a, b) ==
    LET Keep(r) == DateOf(r.Date) >= a /\ DateOf(r.Date) <= b
    IN  [d EXCEPT !.rows = SortByDate(SelectSeq(d.rows, Keep))]

\* faulty variant of DateFilter: the bounds select row positions, as
\* df.iloc would, instead of dates
DateFilterByPosition(d, a, b) ==
    [d EXCEPT !.rows = SubSeq(d.rows, Max(a, 1), Min(b, Len(d.rows)))]

\* df[(df['Date'].dt.date >= user_start) & (df['Date'].dt.date <= user_end)]
DateFilter(d, a, b) ==
    LET Keep(r) == DateOf(r.Date) >= a /\ DateOf(r.Date) <= b
    IN  [d EXCEPT !.rows = SelectSeq(d.rows, Keep)]

(***************************************************************************)
(* Export and rendering, lines 117-147.                                    *)
(***************************************************************************)
\* df.to_csv(index=False): the header and one record per row
convert_df_to_csv(d) ==
    LET In(c) == c \in d.cols
    IN  [header |-> SelectSeq(ColumnOrder, In), data |-> d.rows]

Points(d) == [k \in DOMAIN d.rows |-> <<d.rows[k].Date, d.rows[k].Close>>]

Title(kind, d, s) ==
    IF kind = "Interactive (Plotly)" THEN <<"Stock Price Over Time (Interactive)">>
    ELSE IF "Symbol" \in d.cols THEN <<s, "Stock Price Over Time">>
    ELSE <<"Stock Price Over Time">>

(***************************************************************************)
(* The run.                                                                *)
(***************************************************************************)
Ended == {"Done", "AwaitUpload", "Error"}

\* faulty variant of AfterNoFile: st.stop() is missing and the script goes on
AfterMissingStop == "SelectSymbol"

\* where st.stop() of line 95 leaves the run
AfterNoFile == "AwaitUpload"

RunVarsReset ==
    /\ df' = EmptyFrame
    /\ loaded' = EmptyFrame
    /\ warnings' = <<>>
    /\ symbols' = <<>>
    /\ selected_stock' = NoSelection
    /\ user_start' = NaT
    /\ user_end' = NaT
    /\ download' = NoDownload
    /\ chart' = NoChart
    /\ shown' = <<>>
    /\ done' = {}
    /\ from_cache' = FALSE

Init ==
    /\ pc = "LoadData"
    /\ data_source = "Tokyo Stock Dataset"
    /\ uploaded_file = NoFile
    /\ cache = NoCache
    /\ calls = 0
    /\ fetches = [s \in Range(companies) |-> 0]
    /\ results = NoResults
    /\ df = EmptyFrame
    /\ loaded = EmptyFrame
    /\ warnings = <<>>
    /\ symbols = <<>>
    /\ selected_stock = NoSelection
    /\ user_start = NaT
    /\ user_end = NaT
    /\ download = NoDownload
    /\ chart = NoChart
    /\ shown = <<>>
    /\ done = {}
    /\ from_cache = FALSE

\* a widget changes: the script runs again from the top.  The uploader exists
\* only in the upload branch, and a run stopped at line 95 has drawn no
\* widget but the source radio and the uploader, so one of the two changed
Rerun ==
    /\ pc \in Ended
    /\ cache.valid \/ calls < MaxCalls
    /\ \E src \in DataSources, f \in SessionFiles \cup {NoFile} :
          /\ src = "Tokyo Stock Dataset" => f = NoFile
          /\ pc = "AwaitUpload" => (src = "Tokyo Stock Dataset" \/ f.present)
          /\ data_source' = src
          /\ uploaded_file' = f
    /\ pc' = "LoadData"
    /\ RunVarsReset
    /\ UNCHANGED <<cache, calls, fetches, results>>

\* lines 83-85, the cached value is returned and its warnings replayed
LoadRemoteCached ==
    /\ pc = "LoadData"
    /\ data_source = "Tokyo Stock Dataset"
    /\ CacheHit
    /\ df' = cache.df
    /\ loaded' = cache.df
    /\ warnings' = cache.warnings
    /\ from_cache' = TRUE
    /\ done' = done \cup {"LoadData"}
    /\ pc' = "SelectSymbol"
    /\ UNCHANGED <<data_source, uploaded_file, cache, calls, fetches, results,
                   symbols, selected_stock, user_start, user_end, download,
                   chart, shown>>

\* lines 83-85, the body runs; a raised exception stores nothing
LoadRemoteFetch ==
    /\ pc = "LoadData"
    /\ data_source = "Tokyo Stock Dataset"
    /\ ~CacheHit
    /\ \E out \in [Range(companies) -> Outcomes] :
          LET r == load_tokyo_data(out)
          IN  /\ results' = out
              /\ warnings' = r.warnings
              /\ IF r.raised
                 THEN /\ pc' = "Error"
                      /\ UNCHANGED <<cache, df, loaded, done>>
                 ELSE /\ pc' = "SelectSymbol"
                      /\ cache' = [valid |-> TRUE, df |-> r.df, warnings |-> r.warnings]
                      /\ df' = r.df
                      /\ loaded' = r.df
                      /\ done' = done \cup {"LoadData"}
    /\ calls' = calls + 1
    /\ fetches' = [s \in Range(companies) |-> fetches[s] + 1]
    /\ UNCHANGED <<from_cache, data_source, uploaded_file, symbols, selected_stock,
                   user_start, user_end, download, chart, shown>>

\* lines 87-92
LoadUpload ==
    /\ pc = "LoadData"
    /\ data_source = "Upload CSV"
    /\ uploaded_file.present
    /\ df' = ReadCsv(uploaded_file)
    /\ loaded' = ReadCsv(uploaded_file)
    /\ done' = done \cup {"LoadData"}
    /\ pc' = "SelectSymbol"
    /\ UNCHANGED <<from_cache, data_source, uploaded_file, cache, calls, fetches, results,
                   warnings, symbols, selected_stock, user_start, user_end,
                   download, chart, shown>>

\* lines 93-95
AwaitUpload ==
    /\ pc = "LoadData"
    /\ data_source = "Upload CSV"
    /\ ~uploaded_file.present
    /\ pc' = AfterNoFile
    /\ UNCHANGED <<from_cache, data_source, uploaded_file, cache, calls, fetches, results,
                   df, loaded, warnings, symbols, selected_stock, user_start,
                   user_end, download, chart, shown, done>>

\* lines 99-102
SelectSymbol ==
    /\ pc = "SelectSymbol"
    /\ "Symbol" \in df.cols
    /\ LET options == Unique(df.rows)
       IN  /\ symbols' = options
           /\ \E s \in (IF options = <<>> THEN {NoSelection} ELSE Range(options)) :
                 /\ selected_stock' = s
                 /\ df' = SymbolFilter(df, s)
    /\ done' = done \cup {"SelectSymbol"}
    /\ pc' = "FilterByDate"
    /\ UNCHANGED <<from_cache, data_source, uploaded_file, cache, calls, fetches, results,
                   loaded, warnings, user_start, user_end, download, chart, shown>>

\* line 99, no Symbol column
SkipSymbol ==
    /\ pc = "SelectSymbol"
    /\ "Symbol" \notin df.cols
    /\ pc' = "FilterByDate"
    /\ UNCHANGED <<from_cache, data_source, uploaded_file, cache, calls, fetches, results,
                   df, loaded, warnings, symbols, selected_stock, user_start,
                   user_end, download, chart, shown, done>>

\* line 106 without a Date column: KeyError
DateKeyError ==
    /\ pc = "FilterByDate"
    /\ "Date" \notin df.cols
    /\ pc' = "Error"
    /\ UNCHANGED <<from_cache, data_source, uploaded_file, cache, calls, fetches, results,
                   df, loaded, warnings, symbols, selected_stock, user_start,
                   user_end, download, chart, shown, done>>

\* lines 106-111 on a frame without rows: min() and max() are NaT, and what
\* st.date_input makes of NaT is not fixed by the script: it raises, or the
\* run goes on with NaT bounds and the empty frame
DateOnEmpty ==
    /\ pc = "FilterByDate"
    /\ "Date" \in df.cols
    /\ df.rows = <<>>
    /\ \E raises \in BOOLEAN :
          IF raises
          THEN /\ pc' = "Error"
               /\ UNCHANGED done
          ELSE /\ pc' = "Export"
               /\ done' = done \cup {"FilterByDate"}
    /\ UNCHANGED <<from_cache, data_source, uploaded_file, cache, calls, fetches, results,
                   df, loaded, warnings, symbols, selected_stock, user_start,
                   user_end, download, chart, shown>>

\* lines 106-111
FilterByDate ==
    /\ pc = "FilterByDate"
    /\ "Date" \in df.cols
    /\ df.rows # <<>>
    /\ \E a \in MinDate(df)..MaxDate(df), b \in MinDate(df)..MaxDate(df) :
          /\ user_start' = a
          /\ user_end' = b
          /\ df' = DateFilter(df, a, b)
    /\ done' = done \cup {"FilterByDate"}
    /\ pc' = "Export"
    /\ UNCHANGED <<from_cache, data_source, uploaded_file, cache, calls, fetches, results,
                   loaded, warnings, symbols, selected_stock, download, chart,
                   shown>>

\* lines 118-127
Export ==
    /\ pc = "Export"
    /\ download' = [file_name |-> "filtered_stock_data.csv",
                    mime |-> "text/csv",
                    header |-> convert_df_to_csv(df).header,
                    data |-> convert_df_to_csv(df).data]
    /\ done' = done \cup {"Export"}
    /\ pc' = "Render"
    /\ UNCHANGED <<from_cache, data_source, uploaded_file, cache, calls, fetches, results,
                   df, loaded, warnings, symbols, selected_stock, user_start,
                   user_end, chart, shown>>

\* lines 132-143, the frame has a Close column
Render ==
    /\ pc = "Render"
    /\ "Close" \in df.cols
    /\ \E chart_type \in ChartTypes :
          chart' = [kind |-> chart_type,
                    title |-> Title(chart_type, df, selected_stock),
                    points |-> Points(df)]
    /\ done' = done \cup {"Render"}
    /\ pc' = "ShowDataset"
    /\ UNCHANGED <<from_cache, data_source, uploaded_file, cache, calls, fetches, results,
                   df, loaded, warnings, symbols, selected_stock, user_start,
                   user_end, download, shown>>

\* lines 134 and 141 without a Close column: the plotting call raises
RenderKeyError ==
    /\ pc = "Render"
    /\ "Close" \notin df.cols
    /\ pc' = "Error"
    /\ UNCHANGED <<from_cache, data_source, uploaded_file, cache, calls, fetches, results,
                   df, loaded, warnings, symbols, selected_stock, user_start,
                   user_end, download, chart, shown, done>>

\* lines 146-147
ShowDataset ==
    /\ pc = "ShowDataset"
    /\ \E checked \in BOOLEAN :
          shown' = IF checked THEN df.rows ELSE <<>>
    /\ done' = done \cup {"ShowDataset"}
    /\ pc' = "Done"
    /\ UNCHANGED <<from_cache, data_source, uploaded_file, cache, calls, fetches, results,
                   df, loaded, warnings, symbols, selected_stock, user_start,
                   user_end, download, chart>>

Next ==
    \/ Rerun
    \/ LoadRemoteCached
    \/ LoadRemoteFetch
    \/ LoadUpload
    \/ AwaitUpload
    \/ SelectSymbol
    \/ SkipSymbol
    \/ DateKeyError
    \/ DateOnEmpty
    \/ FilterByDate
    \/ Export
    \/ Render
    \/ RenderKeyError
    \/ ShowDataset

Spec == Init /\ [][Next]_vars

(***************************************************************************)
(* The filter specification: the filter stage applied to every frame an    *)
(* uploaded file of at most MaxRows rows can produce.                      *)
(***************************************************************************)
InitFilter ==
    /\ pc = "SelectSymbol"
    /\ data_source = "Upload CSV"
    /\ uploaded_file \in FilterFiles
    /\ cache = NoCache
    /\ calls = 0
    /\ fetches = [s \in Range(companies) |-> 0]
    /\ results = NoResults
    /\ df = ReadCsv(uploaded_file)
    /\ loaded = ReadCsv(uploaded_file)
    /\ warnings = <<>>
    /\ symbols = <<>>
    /\ selected_stock = NoSelection
    /\ user_start = NaT
    /\ user_end = NaT
    /\ download = NoDownload
    /\ chart = NoChart
    /\ shown = <<>>
    /\ done = {"LoadData"}
    /\ from_cache = FALSE

NextFilter ==
    \/ SelectSymbol
    \/ SkipSymbol
    \/ DateKeyError
    \/ DateOnEmpty
    \/ FilterByDate

SpecFilter == InitFilter /\ [][NextFilter]_vars

(***************************************************************************)
(* Helpers of the properties.                                              *)
(***************************************************************************)
\* how often row r occurs in rows
Count(rows, r) == Cardinality({k \in DOMAIN rows : rows[k] = r})

\* s can be got from t by deleting elements
RECURSIVE IsSubseq(_, _)
IsSubseq(s, t) ==
    IF s = <<>> THEN TRUE
    ELSE IF t = <<>> THEN FALSE
    ELSE IF Head(s) = Head(t) THEN IsSubseq(Tail(s), Tail(t))
    ELSE IsSubseq(s, Tail(t))

\* the run of the remote source is past the load stage
RemoteLoaded == data_source = "Tokyo Stock Dataset" /\ "LoadData" \in done

\* the price columns of a row of the remote frame
PricesOf(r) ==
    [Date |-> r.Date, Open |-> r.Open, High |-> r.High, Low |-> r.Low,
     Close |-> r.Close]

\* the rows of frame d that carry symbol name, in order
RowsOf(d, name) ==
    LET Is(r) == r.Symbol = name
    IN  SelectSeq(d.rows, Is)

InRange(r, a, b) == a <= r.Date.day /\ r.Date.day <= b

(***************************************************************************)
(* C1: when at least one company's download succeeds, the load does not    *)
(* fail, the frame it returns holds for every company whose download       *)
(* succeeded exactly the bars the provider returned and no row of a        *)
(* company whose download failed, and exactly one warning is recorded for  *)
(* each failed company and none for the others.                            *)
(***************************************************************************)
C1_FetchFailureIsolation ==
    ( /\ data_source = "Tokyo Stock Dataset"
      /\ pc # "LoadData"
      /\ \E name \in Range(companies) : results[name].ok )
    =>
    /\ "LoadData" \in done
    /\ cache.valid
    /\ loaded = cache.df
    /\ \A i \in DOMAIN companies :
          LET name == companies[i]
              got == RowsOf(loaded, name)
          IN  /\ Len(got) = results[name].n
              /\ \A k \in DOMAIN got : PricesOf(got[k]) = Bar(i, k)
              /\ Cardinality({k \in DOMAIN warnings : warnings[k] = name})
                    = IF results[name].ok THEN 0 ELSE 1
    /\ \A r \in Range(loaded.rows) : r.Symbol \in Range(companies)

\* a remote run past the load stage in which one download failed and
\* another returned rows
C1_Witness ==
    /\ RemoteLoaded
    /\ ~from_cache
    /\ warnings # <<>>
    /\ loaded.rows # <<>>
    /\ \E name \in Range(companies) : ~results[name].ok

(***************************************************************************)
(* C2: no run ends in an uncaught error.                                   *)
(***************************************************************************)
C2_NoRunEndsInError == pc # "Error"

(***************************************************************************)
(* C3: within a session the body of load_tokyo_data executes at most once. *)
(***************************************************************************)
C3_BodyExecutesAtMostOnce == calls <= 1

\* a run of the upload source without a file is stopped, and nothing after
\* the load stage has run in it
C4_HaltedBeforeFilters ==
    (data_source = "Upload CSV" /\ ~uploaded_file.present /\ pc # "LoadData")
    =>
    /\ pc = "AwaitUpload"
    /\ done = {}
    /\ df = EmptyFrame
    /\ download = NoDownload
    /\ chart = NoChart
    /\ shown = <<>>

(***************************************************************************)
(* C4: with the upload source chosen and no file supplied, the run halts   *)
(* in AwaitUpload with no filter, export or render stage executed and no   *)
(* error; it leaves AwaitUpload only by a new run whose interaction        *)
(* switched the source or supplied a file.                                 *)
(***************************************************************************)
C4_AwaitUpload ==
    /\ []C4_HaltedBeforeFilters
    /\ [][(pc = "AwaitUpload" /\ pc' # "AwaitUpload")
            => /\ pc' = "LoadData"
               /\ data_source' = "Tokyo Stock Dataset" \/ uploaded_file'.present]_vars

\* a run halted at st.stop() after the cache had been filled by an earlier run
C4_Witness ==
    /\ pc = "AwaitUpload"
    /\ data_source = "Upload CSV"
    /\ ~uploaded_file.present
    /\ cache.valid

\* every row of d carries the two derived columns with their values
Derived(d) ==
    /\ {"Price_change", "High_Low_Spread"} \subseteq d.cols
    /\ \A r \in Range(d.rows) :
          /\ r.Price_change = r.Close - r.Open
          /\ r.High_Low_Spread = r.High - r.Low

C6_DateFilterInclusive ==
    [][(pc = "FilterByDate" /\ pc' = "Export")
         => /\ \A r \in Range(df'.rows) : InRange(r, user_start', user_end')
            /\ \A r \in Range(df.rows) :
                  Count(df'.rows, r) =
                     IF InRange(r, user_start', user_end')
                     THEN Count(df.rows, r) ELSE 0
            /\ Len(df'.rows) =
                  Cardinality({k \in DOMAIN df.rows :
                                  InRange(df.rows[k], user_start', user_end')})]_vars

\* the filter has removed a row and kept one dated user_end that is not at
\* midnight
C6_Witness ==
    /\ pc = "Export"
    /\ "Symbol" \notin df.cols
    /\ Len(df.rows) < Len(loaded.rows)
    /\ \E r \in Range(df.rows) : r.Date.day = user_end /\ r.Date.tod > 0
    /\ \E r \in Range(df.rows) : r.Date.day = user_start

(***************************************************************************)
(* C7: with a Symbol column the symbol filter keeps exactly the rows of    *)
(* the one chosen symbol, each as often as it occurred, and no row of any  *)
(* other symbol of the frame; without a Symbol column the frame passes     *)
(* unchanged.                                                              *)
(***************************************************************************)
C7_SymbolFilterExact ==
    [][(pc = "SelectSymbol" /\ pc' = "FilterByDate")
         => IF "Symbol" \in df.cols
            THEN /\ \A r \in Range(df'.rows) : r.Symbol = selected_stock'
                 /\ \A r \in Range(df.rows) :
                       Count(df'.rows, r) =
                          IF r.Symbol = selected_stock'
                          THEN Count(df.rows, r) ELSE 0
                 /\ Len(df'.rows) =
                       Cardinality({k \in DOMAIN df.rows :
                                       df.rows[k].Symbol = selected_stock'})
                 /\ df.rows # <<>> => selected_stock' \in {r.Symbol : r \in Range(df.rows)}
            ELSE df' = df]_vars

\* the filter has kept the rows of the chosen symbol and removed a row of
\* another one
C7_Witness ==
    /\ pc = "FilterByDate"
    /\ "Symbol" \in df.cols
    /\ df.rows # <<>>
    /\ \E r \in Range(loaded.rows) : r.Symbol # selected_stock

(***************************************************************************)
(* C8: the rows left by the symbol filter and the date filter are a        *)
(* subsequence of the rows loaded: same relative order, nothing            *)
(* duplicated, nothing re-sorted.                                          *)
(***************************************************************************)
C8_StableFilter ==
    "LoadData" \in done => IsSubseq(df.rows, loaded.rows)

\* both filters have run, a row was removed, and the rows kept are not in
\* ascending date order
C8_Witness ==
    /\ pc = "Export"
    /\ Len(df.rows) >= 2
    /\ Len(df.rows) < Len(loaded.rows)
    /\ Earlier(df.rows[2], df.rows[1])

\* lines 99-102 and 111 as one function of the frame and the selection
Select(d, s, a, b) ==
    DateFilter(IF "Symbol" \in d.cols THEN SymbolFilter(d, s) ELSE d, a, b)

(***************************************************************************)
(* C9: applying the symbol filter and the date filter again, with the same *)
(* symbol and the same dates, to the frame they produced gives that frame. *)
(***************************************************************************)
C9_FilterIdempotent ==
    pc = "Export" => Select(df, selected_stock, user_start, user_end) = df

\* both filters have run, each removed a row, and a row is left
C9_Witness ==
    /\ pc = "Export"
    /\ "Symbol" \in df.cols
    /\ df.rows # <<>>
    /\ \E r \in Range(loaded.rows) : r.Symbol # selected_stock
    /\ \E r \in Range(loaded.rows) :
          r.Symbol = selected_stock /\ ~InRange(r, user_start, user_end)

\* the stored load went without the bars of company name
Failed(name) == cache.valid /\ ~results[name].ok

\* a company whose download failed is in no remote frame and no selectbox
C10_FailedSymbolAbsent ==
    \A name \in Range(companies) :
        (Failed(name) /\ RemoteLoaded)
        => /\ \A r \in Range(df.rows) : r.Symbol # name
           /\ \A r \in Range(loaded.rows) : r.Symbol # name
           /\ name \notin Range(symbols)
           /\ name # selected_stock

(***************************************************************************)
(* C10: once the remote load has completed with the download of some       *)
(* company failed, no later step issues another download for that company, *)
(* and in every remote run the frame holds no row of that company and the  *)
(* selectbox does not offer it.                                            *)
(***************************************************************************)
C10_NoRetry ==
    /\ []C10_FailedSymbolAbsent
    /\ [][\A name \in Range(companies) :
             Failed(name) => /\ fetches'[name] = fetches[name]
                             /\ Failed(name)']_vars

\* a later run, answered by the cache, has offered its symbols while the
\* download of one company had failed
C10_Witness ==
    /\ RemoteLoaded
    /\ from_cache
    /\ pc = "Done"
    /\ symbols # <<>>
    /\ \E name \in Range(companies) : Failed(name)

====
